---- MODULE Spec2Model ----
(***************************************************************************)
(* Model of the two command-line batch downloaders of the repository:      *)
(*   ytdl_pro.py  front-end (__main__), orchestrator main(), worker        *)
(*                download_video() run by a multiprocessing.Pool           *)
(*   app.py       the simple variant: main() and download_video()          *)
(* The download engine (yt-dlp), the file system and the process pool are  *)
(* the environment: the engine's behaviour per item is an input, the pool  *)
(* is a task queue, worker processes and a result queue.                   *)
(***************************************************************************)
EXTENDS Integers, Sequences, FiniteSets, TLC

\* ------------------------------------------------------------------ bounds
MaxUrls  == 3      \* most URLs given inline with -u
MaxLines == 4      \* most lines of a URL file given with -f
MaxProcs == 2      \* largest -p value tried
NCpu     == 2      \* cpu_count() of the machine

APP_POOL_SIZE == 4 \* app.py: Pool(processes=4)

\* ------------------------------------------------------------- values
None == "None"      \* Python's None

\* A string that the code inspects is a sequence of one-character strings.
WhiteSpace == {" ", "\n"}

\* The inline URLs (-u): the first n of these; the list repeats a URL.
UrlPool == <<<<"a">>, <<"b">>, <<"a">>, <<"c">>, <<"b">>>>

UrlLists == {SubSeq(UrlPool, 1, n) : n \in 1..MaxUrls}

\* Lines a URL file is made of, as the file iterator yields them.
FileLineKinds ==
    { <<"\n">>,                      \* blank line
      <<" ", "\n">>,                 \* white space only
      <<"#", "a", "\n">>,            \* comment
      <<" ", "#", "\n">>,            \* '#' after leading white space
      <<" ", "a", " ", "\n">>,       \* URL with surrounding white space
      <<"b">> }                      \* URL, last line without newline

RECURSIVE SeqsUpTo(_, _)
SeqsUpTo(S, n) ==
    IF n = 0 THEN {<<>>}
    ELSE LET shorter == SeqsUpTo(S, n - 1)
         IN  shorter \cup {Append(s, x) : s \in {t \in shorter : Len(t) = n - 1}, x \in S}

QUALITY    == "720"            \* -q
OUTPUT_ARG == "./out"          \* -o
COOKIE_ARG == "cookies.txt"    \* -c, when given a path
FILE_ARG   == "urls.txt"       \* -f, when given a path
QUIET_YDL  == FALSE            \* --quiet-ydl

\* ----------------------------------------------------- the download engine
\* What the engine (and the identity generator) does for one item: the step
\* at which it raises, the class of the exception and its text.
OkFate == [at |-> "never", type |-> None, msg |-> None]

FailFates ==
    {[at |-> a, type |-> t, msg |-> m] :
        a \in {"ua", "open", "info", "dl"}, t \in {"DownloadError", "Exception"},
        m \in {"e1", "e2"}}

\* ua.random and the YoutubeDL constructor do not raise DownloadError.
Fates ==
    {OkFate} \cup {f \in FailFates : f.at \in {"ua", "open"} => f.type = "Exception"}

BatchFates ==
    { OkFate,
      [at |-> "info", type |-> "DownloadError", msg |-> "e1"],
      [at |-> "dl", type |-> "Exception", msg |-> "e2"] }

\* app.py has no metadata step: the fates that differ there.
AppFates ==
    { OkFate,
      [at |-> "ua", type |-> "Exception", msg |-> "e1"],
      [at |-> "dl", type |-> "DownloadError", msg |-> "e2"] }

MaxItems == IF MaxUrls > MaxLines THEN MaxUrls ELSE MaxLines

VARIABLES
    \* inputs: command line, file system, engine
    prog,          \* "ytdl_pro" or "app"
    argMode,       \* "urls" (-u given) or "file" (-f given)
    argUrls,       \* -u: the list of URLs, <<>> when not given
    argFile,       \* -f: FILE_ARG or the empty string, None when not given
    fileExists,    \* -f: whether the path names a file
    fileLines,     \* -f: the lines of that file
    argProcs,      \* -p
    argCookie,     \* -c: COOKIE_ARG or the empty string, None when not given
    cookieExists,  \* os.path.exists of the cookie file
    engine,        \* engine[i]: the fate of the i-th request
    dir,           \* the output directory: "absent" or "present"
    \* the main process
    pc,
    video_urls,
    processes,
    cookie_path,
    exitCode,
    warnings,      \* warnings logged by the main process
    download_args,
    success_count,
    fail_count,
    failed_urls,
    collected,     \* the list that list(tqdm(imap_unordered(..))) is building
    results,       \* the local `results` of main(), <<>> while unassigned
    k,             \* position of the counting loop in results
    tryExit,       \* how the try statement of main() was left
    summary,       \* the summaries printed, in order
    \* the pool
    poolSize,      \* size the pool was created with, 0 before
    poolAlive,
    taskq,         \* indices of the requests not yet handed to a worker
    wtask,         \* wtask[w]: the request worker w is running, 0 when idle
    outq,          \* result messages on their way to the main process
    \* history
    collectedIdx,  \* collectedIdx[j]: the request that collected[j] answers
    handledBy,     \* handledBy[i]: the workers that ran request i
    calls,         \* calls[i]: what download_video did for request i
    everPool,      \* every processes= value a Pool was asked for
    created        \* whether this run created the output directory

vars == <<prog, argMode, argUrls, argFile, fileExists, fileLines, argProcs, argCookie,
          cookieExists, engine, dir,
          pc, video_urls, processes, cookie_path, exitCode, warnings,
          download_args, success_count, fail_count, failed_urls, collected,
          results, k, tryExit, summary, poolSize, poolAlive, taskq, wtask, outq,
          collectedIdx, handledBy, calls, everPool, created>>

inputVars == <<prog, argMode, argUrls, argFile, fileExists, fileLines, argProcs, argCookie,
               cookieExists, engine>>
frontVars == <<video_urls, processes, cookie_path, exitCode>>
mainVars  == <<download_args, success_count, fail_count, failed_urls, collected,
               results, k, tryExit, summary>>
poolVars  == <<poolSize, poolAlive, taskq, wtask, outq>>
histVars  == <<collectedIdx, handledBy, calls, everPool, created>>

Workers == 1..(IF MaxProcs > NCpu
               THEN (IF MaxProcs > APP_POOL_SIZE THEN MaxProcs ELSE APP_POOL_SIZE)
               ELSE (IF NCpu > APP_POOL_SIZE THEN NCpu ELSE APP_POOL_SIZE))

\* ------------------------------------------------------ Python helpers
\* the truth value of an optional string: None and "" are false
Truthy(x) == x \notin {None, ""}

RECURSIVE LStrip(_)
LStrip(s) ==
    IF s # <<>> /\ Head(s) \in WhiteSpace THEN LStrip(Tail(s)) ELSE s

RECURSIVE RStrip(_)
RStrip(s) ==
    IF s # <<>> /\ s[Len(s)] \in WhiteSpace THEN RStrip(SubSeq(s, 1, Len(s) - 1)) ELSE s

\* str.strip()
Strip(s) == RStrip(LStrip(s))

\* str.startswith(c) for a one-character c
StartsWith(s, c) == s # <<>> /\ s[1] = c

\* [line.strip() for line in f if line.strip() and not line.startswith('#')]
RECURSIVE ReadUrlFile(_)
ReadUrlFile(lines) ==
    IF lines = <<>> THEN <<>>
    ELSE LET line == Head(lines)
             keep == Strip(line) # <<>> /\ ~StartsWith(line, "#")
         IN  (IF keep THEN <<Strip(line)>> ELSE <<>>) \o ReadUrlFile(Tail(lines))

\* Faulty variant of EffectiveProcesses: only a negative count is replaced.
EffectiveProcesses_ZeroAllowed(p) == IF p < 0 THEN NCpu ELSE p

\* if args.processes <= 0: args.processes = DEFAULT_PROCESSES
EffectiveProcesses(p) == IF p <= 0 THEN NCpu ELSE p

\* cookie_path = os.path.abspath(args.cookiefile) if args.cookiefile else None
CookiePath(c) == IF Truthy(c) THEN c ELSE None

\* ------------------------------------------------- ytdl_pro.download_video
\* The options dictionary handed to YoutubeDL, before the cookie file.
YdlOpts(quality, output_dir, quiet_ydl) ==
    [ outtmpl |-> <<"abspath", output_dir, "%(title)s [%(id)s].%(ext)s">>,
      format |-> <<"bestvideo[height<=", quality, "][ext=mp4]+bestaudio[ext=m4a]",
                   "/bestvideo[height<=", quality, "]+bestaudio",
                   "/best[height<=", quality, "]">>,
      merge_output_format |-> "mp4",
      nocheckcertificate |-> FALSE,
      quiet |-> quiet_ydl,
      writethumbnail |-> TRUE ]

\* Faulty variant of WithCookie: the file is not looked for.
WithCookie_Unchecked(opts, cookiefile, exists) ==
    IF Truthy(cookiefile) THEN opts @@ ("cookiefile" :> cookiefile) ELSE opts

\* if cookiefile and os.path.exists(cookiefile): ydl_opts['cookiefile'] = cookiefile
WithCookie(opts, cookiefile, exists) ==
    IF Truthy(cookiefile) /\ exists THEN opts @@ ("cookiefile" :> cookiefile) ELSE opts

\* elif cookiefile: log.warning(...)
CookieWarning(cookiefile, exists) == Truthy(cookiefile) /\ ~exists

\* Faulty variant of ExceptClauses: `except Exception` comes first.
ExceptClauses_GenericFirst(url, e) ==
    IF e.type \in {"Exception", "DownloadError"}
    THEN [raised |-> FALSE, value |-> <<url, FALSE, "Unexpected error: " \o e.msg>>]
    ELSE [raised |-> TRUE, value |-> <<e.type, e.msg>>]

\* The except clauses of download_video: what the worker hands back for an
\* exception e raised in its try block.
ExceptClauses(url, e) ==
    IF e.type = "DownloadError"
    THEN [raised |-> FALSE, value |-> <<url, FALSE, e.msg>>]
    ELSE IF e.type = "Exception"
    THEN [raised |-> FALSE, value |-> <<url, FALSE, "Unexpected error: " \o e.msg>>]
    ELSE [raised |-> TRUE, value |-> <<e.type, e.msg>>]

\* The try block of download_video under engine behaviour f. done: the engine
\* calls made, in order; exc: the fate when one of them raised.
TryBlock(args_tuple, f, exists) ==
    LET url        == args_tuple[1]
        cookiefile == args_tuple[4]
        opts       == WithCookie(YdlOpts(args_tuple[2], args_tuple[3], args_tuple[5]),
                                 cookiefile, exists)
        warned     == CookieWarning(cookiefile, exists)
    IN  IF f.at = "ua"
        THEN [exc |-> TRUE, done |-> <<>>, opts |-> <<>>, warned |-> FALSE]
        ELSE IF f.at = "open"
        THEN [exc |-> TRUE, done |-> <<"YoutubeDL">>, opts |-> <<opts>>, warned |-> warned]
        ELSE IF f.at = "info"
        THEN [exc |-> TRUE, done |-> <<"YoutubeDL", "extract_info">>,
              opts |-> <<opts>>, warned |-> warned]
        ELSE IF f.at = "dl"
        THEN [exc |-> TRUE, done |-> <<"YoutubeDL", "extract_info", "download">>,
              opts |-> <<opts>>, warned |-> warned]
        ELSE [exc |-> FALSE, done |-> <<"YoutubeDL", "extract_info", "download">>,
              opts |-> <<opts>>, warned |-> warned]

\* Faulty variant of DownloadVideo: no except clause for DownloadError, which
\* leaves the function.
DownloadVideo_LetsDownloadErrorOut(args_tuple, f, exists) ==
    LET t   == TryBlock(args_tuple, f, exists)
        url == args_tuple[1]
        out == IF t.exc /\ f.type = "DownloadError"
               THEN [raised |-> TRUE, value |-> <<f.type, f.msg>>]
               ELSE IF t.exc THEN ExceptClauses(url, f)
               ELSE [raised |-> FALSE, value |-> <<url, TRUE, None>>]
    IN  [raised |-> out.raised, value |-> out.value, done |-> t.done,
         opts |-> t.opts, warned |-> t.warned]

\* download_video(args_tuple): what the call hands to the pool (raised: an
\* exception left the function) and what it did on the way.
DownloadVideo(args_tuple, f, exists) ==
    LET t   == TryBlock(args_tuple, f, exists)
        url == args_tuple[1]
        out == IF t.exc THEN ExceptClauses(url, f)
               ELSE [raised |-> FALSE, value |-> <<url, TRUE, None>>]
    IN  [raised |-> out.raised, value |-> out.value, done |-> t.done,
         opts |-> t.opts, warned |-> t.warned]

\* ------------------------------------------------------ app.download_video
\* No metadata step, a fixed cookie file, every Exception printed; the
\* function has no return statement: it returns None, written <<>> here.
AppDownloadVideo(args, f) ==
    LET opts == [ outtmpl |-> <<args[3], "%(title)s.%(ext)s">>,
                  format |-> <<"bestvideo[height<=", args[2], "]+bestaudio",
                               "/best[height<=", args[2], "]">>,
                  merge_output_format |-> "mp4",
                  nocheckcertificate |-> FALSE,
                  quiet |-> TRUE,
                  cookiefile |-> "cookies.txt" ]
        done == IF f.at = "ua" THEN <<>>
                ELSE IF f.at = "open" THEN <<"YoutubeDL">>
                ELSE <<"YoutubeDL", "download">>
    IN  [raised |-> FALSE, value |-> <<>>, done |-> done,
         opts |-> IF f.at = "ua" THEN <<>> ELSE <<opts>>, warned |-> FALSE]

\* ------------------------------------------------------------ initial states
NoCall == [ran |-> FALSE, raised |-> FALSE, value |-> <<>>, done |-> <<>>, opts |-> <<>>,
           warned |-> FALSE]

Start(p, mode, urls, file, fexists, lines, procs, cookie, cexists, eng, d) ==
    /\ prog = p
    /\ argMode = mode
    /\ argUrls = urls
    /\ argFile = file
    /\ fileExists = fexists
    /\ fileLines = lines
    /\ argProcs = procs
    /\ argCookie = cookie
    /\ cookieExists = cexists
    /\ engine = eng
    /\ dir = d
    /\ pc = IF p = "app" THEN "app_main" ELSE "args"
    /\ video_urls = IF p = "app" THEN urls ELSE <<>>
    /\ processes = procs
    /\ cookie_path = None
    /\ exitCode = 0
    /\ warnings = {}
    /\ download_args = <<>>
    /\ success_count = 0
    /\ fail_count = 0
    /\ failed_urls = <<>>
    /\ collected = <<>>
    /\ results = <<>>
    /\ k = 0
    /\ tryExit = None
    /\ summary = <<>>
    /\ poolSize = 0
    /\ poolAlive = FALSE
    /\ taskq = <<>>
    /\ wtask = [w \in Workers |-> 0]
    /\ outq = <<>>
    /\ collectedIdx = <<>>
    /\ handledBy = [i \in 1..MaxItems |-> {}]
    /\ calls = [i \in 1..MaxItems |-> NoCall]
    /\ everPool = {}
    /\ created = FALSE

AllOk == [i \in 1..MaxItems |-> OkFate]

\* The engines that differ from AllOk on the first n requests only.
EnginesFor(n, fates) ==
    {[i \in 1..MaxItems |-> IF i <= n THEN e[i] ELSE OkFate] : e \in [1..n -> fates]}

\* ytdl_pro.py -u ... -p 1 or 2: every list, every mix of item outcomes
InitBatch ==
    \E urls \in UrlLists, procs \in {1, 2} :
        \E eng \in EnginesFor(Len(urls), BatchFates) :
            Start("ytdl_pro", "urls", urls, None, FALSE, <<>>, procs, None, FALSE, eng,
                  "present")

\* ytdl_pro.py -u one URL: every engine behaviour, every cookie-file case
InitWorker ==
    \E f \in Fates, cookie \in {None, "", COOKIE_ARG}, cexists \in BOOLEAN :
        /\ cookie = "" => ~cexists
        /\ Start("ytdl_pro", "urls", SubSeq(UrlPool, 1, 1), None, FALSE, <<>>, 1, cookie,
                 cexists, [i \in 1..MaxItems |-> IF i = 1 THEN f ELSE OkFate], "present")

\* ytdl_pro.py -f ...: every file, a path that names no file, the empty path
InitFile ==
    \/ \E lines \in SeqsUpTo(FileLineKinds, MaxLines) :
          Start("ytdl_pro", "file", <<>>, FILE_ARG, TRUE, lines, 1, None, FALSE, AllOk,
                "present")
    \/ \E file \in {FILE_ARG, ""} :
          Start("ytdl_pro", "file", <<>>, file, FALSE, <<>>, 1, None, FALSE, AllOk, "present")

\* ytdl_pro.py -p ...: every worker count, with and without a cookie file
InitProcs ==
    \E procs \in -2..(MaxProcs + 1), cookie \in {None, COOKIE_ARG}, cexists \in BOOLEAN :
        Start("ytdl_pro", "urls", SubSeq(UrlPool, 1, 2), None, FALSE, <<>>, procs, cookie,
              cexists, AllOk, "absent")

\* app.py -u one or two URLs
InitApp ==
    \E urls \in {SubSeq(UrlPool, 1, 1), SubSeq(UrlPool, 1, 2)}, d \in {"absent", "present"} :
        \E eng \in EnginesFor(Len(urls), AppFates) :
            Start("app", "urls", urls, None, FALSE, <<>>, APP_POOL_SIZE, None, FALSE, eng, d)

Init == InitBatch \/ InitWorker \/ InitFile \/ InitProcs \/ InitApp

\* --------------------------------------------------- ytdl_pro.py: __main__
\* video_urls = []; if args.urls: ... elif args.file: ... (exit(1) when the
\* file is not found or holds no URL)
ReadUrls ==
    /\ prog = "ytdl_pro" /\ pc = "args"
    /\ IF argUrls # <<>>
       THEN video_urls' = argUrls /\ pc' = "procs" /\ UNCHANGED exitCode
       ELSE IF ~Truthy(argFile)
       THEN video_urls' = <<>> /\ pc' = "procs" /\ UNCHANGED exitCode
       ELSE IF ~fileExists
       THEN pc' = "exit" /\ exitCode' = 1 /\ UNCHANGED video_urls
       ELSE /\ video_urls' = ReadUrlFile(fileLines)
            /\ IF video_urls' = <<>>
               THEN pc' = "exit" /\ exitCode' = 1
               ELSE pc' = "procs" /\ UNCHANGED exitCode
    /\ UNCHANGED <<inputVars, dir, processes, cookie_path, warnings, mainVars, poolVars,
                   histVars>>

\* a worker count <= 0 is replaced by DEFAULT_PROCESSES
FixProcesses ==
    /\ pc = "procs"
    /\ processes' = EffectiveProcesses(processes)
    /\ warnings' = IF processes <= 0 THEN warnings \cup {"Invalid process count"}
                   ELSE warnings
    /\ pc' = "cookie"
    /\ UNCHANGED <<inputVars, dir, video_urls, cookie_path, exitCode, mainVars, poolVars,
                   histVars>>

\* the cookie path is resolved and checked, then main() is called
CheckCookie ==
    /\ pc = "cookie"
    /\ cookie_path' = CookiePath(argCookie)
    /\ warnings' = IF CookieWarning(cookie_path', cookieExists)
                   THEN warnings \cup {"Specified cookie file does not exist"}
                   ELSE warnings
    /\ pc' = "mkdir"
    /\ UNCHANGED <<inputVars, dir, video_urls, processes, exitCode, mainVars, poolVars,
                   histVars>>

\* ------------------------------------------------------- ytdl_pro.py: main
\* Faulty variant of MakeDir: main() goes on after the OSError.
MakeDir_GoesOn ==
    /\ pc = "mkdir"
    /\ \E ok \in BOOLEAN :
          IF ok THEN dir' = "present" /\ created' = (dir = "absent") /\ pc' = "ready"
          ELSE dir = "absent" /\ pc' = "ready" /\ UNCHANGED <<dir, created>>
    /\ UNCHANGED <<inputVars, frontVars, warnings, mainVars, poolVars, collectedIdx,
                   handledBy, calls, everPool>>

\* os.makedirs(abs_output_dir, exist_ok=True); on OSError main() returns
MakeDir ==
    /\ pc = "mkdir"
    /\ \E ok \in BOOLEAN :
          IF ok THEN dir' = "present" /\ created' = (dir = "absent") /\ pc' = "ready"
          ELSE dir = "absent" /\ pc' = "aborted" /\ UNCHANGED <<dir, created>>
    /\ UNCHANGED <<inputVars, frontVars, warnings, mainVars, poolVars, collectedIdx,
                   handledBy, calls, everPool>>

\* download_args, one tuple per URL; the counters
BuildArgs ==
    /\ pc = "ready"
    /\ download_args' = [i \in 1..Len(video_urls) |->
                            <<video_urls[i], QUALITY, OUTPUT_ARG, cookie_path, QUIET_YDL>>]
    /\ success_count' = 0
    /\ fail_count' = 0
    /\ failed_urls' = <<>>
    /\ pc' = "pool"
    /\ UNCHANGED <<inputVars, dir, frontVars, warnings, collected, results, k, tryExit,
                   summary, poolVars, histVars>>

\* Leaving the with-block of the pool: Pool.__exit__ terminates the workers.
Terminated ==
    /\ poolAlive' = FALSE
    /\ taskq' = <<>>
    /\ wtask' = [w \in Workers |-> 0]
    /\ outq' = <<>>
    /\ UNCHANGED poolSize

\* Pool(processes=processes) and imap_unordered: the requests are queued in
\* list order. Pool raises ValueError for processes < 1, or OSError.
CreatePool ==
    /\ pc = "pool"
    /\ everPool' = everPool \cup {processes}
    /\ \E started \in BOOLEAN :
          IF started /\ processes >= 1
          THEN /\ poolSize' = processes
               /\ poolAlive' = TRUE
               /\ taskq' = [i \in 1..Len(download_args) |-> i]
               /\ pc' = "collect"
               /\ UNCHANGED <<wtask, outq, tryExit>>
          ELSE /\ pc' = "critical"
               /\ tryExit' = "CriticalError"
               /\ UNCHANGED poolVars
    /\ UNCHANGED <<inputVars, dir, frontVars, warnings, download_args, success_count,
                   fail_count, failed_urls, collected, results, k, summary, collectedIdx,
                   handledBy, calls, created>>

\* list(tqdm(...)) takes the next result that arrived; a result that is an
\* exception is raised here and leaves the try block through `except Exception`
Collect ==
    /\ pc = "collect"
    /\ outq # <<>>
    /\ LET m == Head(outq)
       IN  IF m.raised
           THEN /\ Terminated
                /\ pc' = "critical"
                /\ tryExit' = "CriticalError"
                /\ UNCHANGED <<collected, collectedIdx>>
           ELSE /\ collected' = Append(collected, m.value)
                /\ collectedIdx' = Append(collectedIdx, m.idx)
                /\ outq' = Tail(outq)
                /\ UNCHANGED <<pc, tryExit, poolSize, poolAlive, taskq, wtask>>
    /\ UNCHANGED <<inputVars, dir, frontVars, warnings, download_args, success_count,
                   fail_count, failed_urls, results, k, summary, handledBy, calls, everPool,
                   created>>

\* every request answered: `results` is bound and the with-block is left
CollectDone ==
    /\ pc = "collect"
    /\ Len(collected) = Len(download_args)
    /\ results' = collected
    /\ Terminated
    /\ k' = 1
    /\ pc' = "count"
    /\ UNCHANGED <<inputVars, dir, frontVars, warnings, download_args, success_count,
                   fail_count, failed_urls, collected, tryExit, summary, histVars>>

\* Faulty variant of CountOne: a failure is listed but not counted.
CountOne_FailureNotCounted ==
    /\ pc = "count"
    /\ k <= Len(results)
    /\ LET url       == results[k][1]
           success   == results[k][2]
           error_msg == results[k][3]
       IN  IF success
           THEN success_count' = success_count + 1 /\ UNCHANGED <<fail_count, failed_urls>>
           ELSE /\ failed_urls' = Append(failed_urls, <<url, error_msg>>)
                /\ UNCHANGED <<success_count, fail_count>>
    /\ k' = k + 1
    /\ UNCHANGED <<inputVars, dir, frontVars, warnings, download_args, collected, results,
                   pc, tryExit, summary, poolVars, histVars>>

\* one round of `for url, success, error_msg in results`
CountOne ==
    /\ pc = "count"
    /\ k <= Len(results)
    /\ LET url       == results[k][1]
           success   == results[k][2]
           error_msg == results[k][3]
       IN  IF success
           THEN success_count' = success_count + 1 /\ UNCHANGED <<fail_count, failed_urls>>
           ELSE /\ fail_count' = fail_count + 1
                /\ failed_urls' = Append(failed_urls, <<url, error_msg>>)
                /\ UNCHANGED success_count
    /\ k' = k + 1
    /\ UNCHANGED <<inputVars, dir, frontVars, warnings, download_args, collected, results,
                   pc, tryExit, summary, poolVars, histVars>>

\* the loop is over: the try block ends without an exception
CountDone ==
    /\ pc = "count"
    /\ k > Len(results)
    /\ pc' = "completed"
    /\ tryExit' = "Completed"
    /\ UNCHANGED <<inputVars, dir, frontVars, warnings, download_args, success_count,
                   fail_count, failed_urls, collected, results, k, summary, poolVars,
                   histVars>>

\* Faulty variant of Interrupt: no except clause and no finally block, the
\* KeyboardInterrupt ends the process.
Interrupt_Uncaught ==
    /\ pc \in {"pool", "collect", "count"}
    /\ Terminated
    /\ pc' = "exit"
    /\ exitCode' = 1
    /\ UNCHANGED <<inputVars, dir, video_urls, processes, cookie_path, warnings, mainVars,
                   histVars>>

\* KeyboardInterrupt inside the try block: `except KeyboardInterrupt`
Interrupt ==
    /\ pc \in {"pool", "collect", "count"}
    /\ Terminated
    /\ pc' = "interrupted"
    /\ tryExit' = "Interrupted"
    /\ warnings' = warnings \cup {"Download interrupted by user."}
    /\ UNCHANGED <<inputVars, dir, frontVars, download_args, success_count, fail_count,
                   failed_urls, collected, results, k, summary, histVars>>

\* the finally block: the summary
Summarize ==
    /\ pc \in {"completed", "interrupted", "critical"}
    /\ summary' = Append(summary, [succeeded |-> success_count, failed |-> fail_count,
                                   failures |-> failed_urls])
    /\ pc' = "summarized"
    /\ UNCHANGED <<inputVars, dir, frontVars, warnings, download_args, success_count,
                   fail_count, failed_urls, collected, results, k, tryExit, poolVars,
                   histVars>>

\* ------------------------------------------------------------ pool workers
\* Faulty variant of WorkerTake: the request stays on the task queue.
WorkerTake_LeavesRequest(w) ==
    /\ poolAlive
    /\ w <= poolSize
    /\ wtask[w] = 0
    /\ taskq # <<>>
    /\ wtask' = [wtask EXCEPT ![w] = Head(taskq)]
    /\ handledBy' = [handledBy EXCEPT ![Head(taskq)] = @ \cup {w}]
    /\ UNCHANGED <<inputVars, dir, pc, frontVars, warnings, mainVars, poolSize, poolAlive,
                   taskq, outq, collectedIdx, calls, everPool, created>>

\* an idle worker process takes the next request off the task queue
WorkerTake(w) ==
    /\ poolAlive
    /\ w <= poolSize
    /\ wtask[w] = 0
    /\ taskq # <<>>
    /\ wtask' = [wtask EXCEPT ![w] = Head(taskq)]
    /\ taskq' = Tail(taskq)
    /\ handledBy' = [handledBy EXCEPT ![Head(taskq)] = @ \cup {w}]
    /\ UNCHANGED <<inputVars, dir, pc, frontVars, warnings, mainVars, poolSize, poolAlive,
                   outq, collectedIdx, calls, everPool, created>>

\* the call of download_video for request i, as the program run makes it
RunRequest(i) ==
    IF prog = "app" THEN AppDownloadVideo(download_args[i], engine[i])
    ELSE DownloadVideo(download_args[i], engine[i], cookieExists)

\* the worker runs download_video on its request and sends back what the
\* call returned, or the exception that left it
WorkerRun(w) ==
    /\ poolAlive
    /\ wtask[w] # 0
    /\ LET i == wtask[w]
           r == RunRequest(i)
       IN  /\ outq' = Append(outq, [idx |-> i, raised |-> r.raised, value |-> r.value])
           /\ calls' = [calls EXCEPT ![i] = [ran |-> TRUE, raised |-> r.raised,
                                            value |-> r.value, done |-> r.done,
                                            opts |-> r.opts, warned |-> r.warned]]
    /\ wtask' = [wtask EXCEPT ![w] = 0]
    /\ UNCHANGED <<inputVars, dir, pc, frontVars, warnings, mainVars, poolSize, poolAlive,
                   taskq, collectedIdx, handledBy, everPool, created>>

\* ------------------------------------------------------------ app.py: main
\* if not os.path.exists(output_dir): os.makedirs(output_dir)
AppMakeDir ==
    /\ pc = "app_main"
    /\ IF dir = "present"
       THEN pc' = "app_pool" /\ UNCHANGED <<dir, created, exitCode>>
       ELSE \E ok \in BOOLEAN :
               IF ok THEN dir' = "present" /\ created' = TRUE /\ pc' = "app_pool"
                          /\ UNCHANGED exitCode
               ELSE pc' = "exit" /\ exitCode' = 1 /\ UNCHANGED <<dir, created>>
    /\ UNCHANGED <<inputVars, video_urls, processes, cookie_path, warnings, mainVars,
                   poolVars, collectedIdx, handledBy, calls, everPool>>

\* with Pool(processes=4) as pool: pool.map(download_video, [...])
AppPoolMap ==
    /\ pc = "app_pool"
    /\ download_args' = [i \in 1..Len(video_urls) |-> <<video_urls[i], QUALITY, OUTPUT_ARG>>]
    /\ everPool' = everPool \cup {APP_POOL_SIZE}
    /\ poolSize' = APP_POOL_SIZE
    /\ poolAlive' = TRUE
    /\ taskq' = [i \in 1..Len(video_urls) |-> i]
    /\ pc' = "app_wait"
    /\ UNCHANGED <<inputVars, dir, frontVars, warnings, success_count, fail_count,
                   failed_urls, collected, results, k, tryExit, summary, wtask, outq,
                   collectedIdx, handledBy, calls, created>>

\* pool.map gathers the return values; an exception of a worker ends the run
AppGather ==
    /\ pc = "app_wait"
    /\ outq # <<>>
    /\ LET m == Head(outq)
       IN  IF m.raised
           THEN /\ Terminated
                /\ pc' = "exit"
                /\ exitCode' = 1
                /\ UNCHANGED <<collected, collectedIdx>>
           ELSE /\ collected' = Append(collected, m.value)
                /\ collectedIdx' = Append(collectedIdx, m.idx)
                /\ outq' = Tail(outq)
                /\ UNCHANGED <<pc, exitCode, poolSize, poolAlive, taskq, wtask>>
    /\ UNCHANGED <<inputVars, dir, video_urls, processes, cookie_path, warnings,
                   download_args, success_count, fail_count, failed_urls, results, k,
                   tryExit, summary, handledBy, calls, everPool, created>>

\* pool.map returned: the with-block and the script end
AppDone ==
    /\ pc = "app_wait"
    /\ Len(collected) = Len(download_args)
    /\ Terminated
    /\ pc' = "exit"
    /\ UNCHANGED <<inputVars, dir, frontVars, warnings, mainVars, histVars>>

\* ------------------------------------------------------------ specification
MainStep ==
    \/ ReadUrls
    \/ FixProcesses
    \/ CheckCookie
    \/ MakeDir
    \/ BuildArgs
    \/ CreatePool
    \/ Collect
    \/ CollectDone
    \/ CountOne
    \/ CountDone
    \/ Summarize
    \/ AppMakeDir
    \/ AppPoolMap
    \/ AppGather
    \/ AppDone

WorkerStep(w) == WorkerTake(w) \/ WorkerRun(w)

Next ==
    \/ MainStep
    \/ Interrupt
    \/ \E w \in Workers : WorkerStep(w)

Spec == Init /\ [][Next]_vars

\* The runs whose URLs come from the command line.
InitInline == InitBatch \/ InitWorker \/ InitProcs \/ InitApp

\* The main process keeps running and every worker process of the pool is
\* scheduled; the user need not interrupt.
FairSpec ==
    /\ InitInline
    /\ [][Next]_vars
    /\ WF_vars(MainStep)
    /\ \A w \in Workers : WF_vars(WorkerStep(w))

\* ------------------------------------------------------------------ claims
IsPro  == prog = "ytdl_pro"
Total  == Len(video_urls)
Items  == 1..Total
Range(q) == {q[j] : j \in DOMAIN q}

Injective(q) == \A a, b \in DOMAIN q : q[a] = q[b] => a = b

\* the summary that was printed (when one was)
Printed == summary[1]

\* C1: in a batch of ytdl_pro.main that collects its results, `results` holds
\* exactly one record per input URL: as many records as URLs, each answering
\* a different request and carrying that request's URL, every request run by
\* exactly one worker; while collecting, no request is answered or run twice.
C1_OneResultPerUrl ==
    IsPro =>
        /\ \A i \in 1..MaxItems : Cardinality(handledBy[i]) <= 1
        /\ Injective(collectedIdx)
        /\ Len(collected) = Len(collectedIdx)
        /\ \A j \in DOMAIN collected :
              /\ collectedIdx[j] \in Items
              /\ collected[j] = calls[collectedIdx[j]].value
              /\ collected[j][1] = video_urls[collectedIdx[j]]
        /\ results # <<>> =>
              /\ results = collected
              /\ Len(results) = Total
              /\ Range(collectedIdx) = Items
              /\ \A i \in Items : Cardinality(handledBy[i]) = 1

\* three URLs, two of them equal, answered out of input order by two workers
C1_Witness ==
    /\ IsPro
    /\ Total = 3
    /\ Len(results) = 3
    /\ collectedIdx[1] = 2
    /\ handledBy[1] # handledBy[2]
    /\ results[1][2] # results[2][2]

C3_InterruptedSummaryCountsReceived ==
    (IsPro /\ summary # <<>> /\ tryExit = "Interrupted") =>
        Printed.succeeded + Printed.failed = Len(collected)

\* The state of the batch lifecycle that a position of ytdl_pro.py lies in:
\* the try block (pool, collection, counting loop) is Dispatching then
\* Collecting, and its three exits are Completed, Interrupted, CriticalError.
Phase ==
    CASE pc \in {"args", "procs", "cookie"} -> "NotStarted"
      [] pc = "mkdir"       -> "Initializing"
      [] pc = "ready"       -> "DirectoryReady"
      [] pc = "pool"        -> "Dispatching"
      [] pc \in {"collect", "count"} -> "Collecting"
      [] pc = "completed"   -> "Completed"
      [] pc = "interrupted" -> "Interrupted"
      [] pc = "critical"    -> "CriticalError"
      [] pc = "summarized"  -> "Summarized"
      [] pc = "aborted"     -> "Aborted"
      [] OTHER              -> "Exited"

LifecycleEdges ==
    { <<"NotStarted", "Initializing">>, <<"NotStarted", "Exited">>,
      <<"Initializing", "DirectoryReady">>, <<"Initializing", "Aborted">>,
      <<"DirectoryReady", "Dispatching">>,
      <<"Dispatching", "Collecting">>,
      <<"Dispatching", "Interrupted">>, <<"Dispatching", "CriticalError">>,
      <<"Collecting", "Completed">>, <<"Collecting", "Interrupted">>,
      <<"Collecting", "CriticalError">>,
      <<"Completed", "Summarized">>, <<"Interrupted", "Summarized">>,
      <<"CriticalError", "Summarized">> }

NoAttempt ==
    /\ download_args = <<>>
    /\ everPool = {}
    /\ poolSize = 0
    /\ \A i \in 1..MaxItems : handledBy[i] = {} /\ ~calls[i].ran

\* C5: in both programs, requests are built, the pool exists and workers
\* run only while the output directory exists; and when creating it failed
\* (ytdl_pro.main returned, app.main raised) no request was built, no pool
\* was created and no download was attempted.
C5_NoDownloadBeforeDirectory ==
    /\ ~NoAttempt => dir = "present"
    /\ (pc = "pool" \/ poolAlive) => dir = "present"
    /\ pc = "aborted" => dir = "absent" /\ NoAttempt
    /\ (prog = "app" /\ pc = "exit" /\ dir = "absent") => NoAttempt

\* a download that ran in a directory this run of ytdl_pro.main had to create
C5_Witness ==
    /\ IsPro
    /\ created
    /\ dir = "present"
    /\ calls[1].ran
    /\ "download" \in Range(calls[1].done)

FailedIdx == SelectSeq(collectedIdx, LAMBDA i : engine[i].at # "never")

\* C7: a batch of ytdl_pro.main whose items partly fail still completes: no
\* item's failure is a critical error of the batch or a non-zero exit; in
\* the summary every item that succeeded is counted as succeeded and the
\* failure list holds exactly the failed URLs, each with the message of its
\* own result record.
C7_FailuresStayPerItem ==
    IsPro =>
        /\ tryExit = "CriticalError" => poolSize = 0 /\ collected = <<>>
        /\ pc \notin {"args", "procs", "cookie", "exit"} => exitCode = 0
        /\ (summary # <<>> /\ tryExit = "Completed") =>
              /\ Printed.succeeded = Cardinality({i \in Items : engine[i].at = "never"})
              /\ Printed.failed = Cardinality({i \in Items : engine[i].at # "never"})
              /\ Len(Printed.failures) = Len(FailedIdx)
              /\ \A j \in DOMAIN Printed.failures :
                    Printed.failures[j] =
                        <<video_urls[FailedIdx[j]], calls[FailedIdx[j]].value[3]>>

\* three items, the second fails with a download-layer error
C7_Witness ==
    /\ IsPro
    /\ Total = 3
    /\ summary # <<>>
    /\ tryExit = "Completed"
    /\ Printed.succeeded = 2
    /\ Printed.failed = 1
    /\ Printed.failures = <<<<video_urls[2], "e1">>>>
    /\ engine[2].type = "DownloadError"

\* what the URL-file format says of one line
IsBlankLine(line)   == \A j \in DOMAIN line : line[j] \in WhiteSpace
IsCommentLine(line) == line # <<>> /\ line[1] = "#"

Trimmed(line) ==
    LET inked == {j \in DOMAIN line : line[j] \notin WhiteSpace}
        first == CHOOSE j \in inked : \A j2 \in inked : j <= j2
        last  == CHOOSE j \in inked : \A j2 \in inked : j >= j2
    IN  IF inked = {} THEN <<>> ELSE SubSeq(line, first, last)

UrlLinesOf(lines) ==
    LET real == SelectSeq(lines, LAMBDA l : ~IsBlankLine(l) /\ ~IsCommentLine(l))
    IN  [j \in DOMAIN real |-> Trimmed(real[j])]

\* C8: with -f, once the front-end is past the URL source the URLs (and then
\* the requests) are the trimmed lines of the file that are neither blank nor
\* begin with '#', in file order; without such a line, or when the path
\* names no file, the process has ended with exit code 1 and main() was
\* never entered: nothing built, no pool, no download.
C8_UrlFile ==
    (IsPro /\ argMode = "file" /\ pc # "args") =>
        IF fileExists /\ UrlLinesOf(fileLines) # <<>>
        THEN /\ video_urls = UrlLinesOf(fileLines)
             /\ pc # "exit"
             /\ download_args # <<>> =>
                   /\ Len(download_args) = Len(UrlLinesOf(fileLines))
                   /\ \A i \in DOMAIN download_args :
                         download_args[i][1] = UrlLinesOf(fileLines)[i]
        ELSE /\ pc = "exit"
             /\ exitCode = 1
             /\ NoAttempt
             /\ ~created
             /\ summary = <<>>

\* C9: the worker count main() runs with, and every size a pool is created
\* with, is positive: the configured count when that is > 0, and the
\* default, cpu_count(), when it is <= 0.
C9_PoolSizePositive ==
    IsPro =>
        LET expected == IF argProcs <= 0 THEN NCpu ELSE argProcs
        IN  /\ pc \notin {"args", "procs", "exit"} => processes = expected /\ processes > 0
            /\ \A p \in everPool : p > 0 /\ p = expected
            /\ poolSize # 0 => poolSize = expected

\* a pool of cpu_count() workers at work after -p 0
C9_Witness ==
    /\ IsPro
    /\ argProcs = 0
    /\ poolAlive
    /\ poolSize = NCpu
    /\ \E w \in Workers : wtask[w] # 0

CookieMissing == argCookie # None /\ ~cookieExists

====
